---- MODULE Spec2Model ----
(***************************************************************************)
(* The create-video request of src/backend(2).py: the endpoint             *)
(* create_video_from_images and the pipeline                               *)
(* _create_video_from_images_and_music_logic it calls.                     *)
(*                                                                         *)
(* Time is counted in ticks of 0.05 s, so that the 0.1 s floor of the      *)
(* transition clamp is 2 ticks; display durations are even numbers of      *)
(* ticks, so that 0.5 * duration is a whole number of ticks.               *)
(*                                                                         *)
(* A media handle is the object a variable of the pipeline is bound to; it *)
(* is named by the variable that first holds it and the loop index.  The   *)
(* calls of the media library behave as moviepy 1.x does: set_duration,    *)
(* set_audio, subclip, fx, crossfadeout and resize return a new object and *)
(* leave the receiver alone; crossfadeout fades the mask and keeps the     *)
(* clip's duration; concatenate_videoclips without padding lays the clips  *)
(* end to end; subclip(a, b) has duration b - a.  Any call into the        *)
(* library may raise.                                                      *)
(*                                                                         *)
(* Spec is one create-video request.  SpecValidate is a request body that  *)
(* the framework validates before the request runs.  SpecSlide is the      *)
(* resize and crop of one image.  SpecResolve is one call of               *)
(* resolve_file_id_to_path on any directory listing.  SpecStore is the     *)
(* four endpoints that write files, taking their steps in any order.       *)
(* SpecSweep is cleanup_old_files beside a create-video request.           *)
(***************************************************************************)
EXTENDS Integers, Sequences, FiniteSets, TLC

\* ------------------------------------------------------------- bounds
MaxImages == 2
MaxHalfDur == 3
MaxTrans == 6
MaxTexts == 1
MaxTrack == 2
MaxStart == 1
MaxSeg == 3
MaxNameLen == 2
MaxFiles == 2
MaxRequests == 2
MaxSide == 12
MaxEntries == 2
MaxAge == 2

\* max(0.1, ...) of line 304, in ticks
MinTransition == 2

\* A segment length that the sum of line 427 loses: the field is greater
\* than 0 (line 69), but so small beside a start offset greater than 0 that
\* start + length == start in floating point (1000.0 + 1e-14 == 1000.0).
\* It counts as 0 ticks, and is drawn only with a start offset above 0.
Absorbed == 0

\* ------------------------------------------------------------- values
None == <<"None", 0>>
H(name, i) == <<name, i>>

\* An Optional[...] value is the empty set (None) or a singleton.
Optional(S) == {{}} \cup {{x} : x \in S}
Value(o) == CHOOSE x \in o : TRUE

Min(a, b) == IF a <= b THEN a ELSE b
Max(a, b) == IF a >= b THEN a ELSE b
\* x * 0.5
Half(x) == x \div 2

Range(s) == {s[k] : k \in 1..Len(s)}
Count(s, x) == Cardinality({k \in 1..Len(s) : s[k] = x})
Prefix(s, k) == SubSeq(s, 1, k)

\* No call has made audio_segment_final_for_video.
NoSegmentOp == [op |-> "none", t_start |-> 0, tiles |-> 0]

NoResult == [success |-> FALSE, message |-> "pending"]
Failure(msg) == [success |-> FALSE, message |-> msg]
Success == [success |-> TRUE, message |-> "output_path"]

\* the image_index of a text: None, or an index from -1 to MaxImages - 1
TextOverlay == [image_index : Optional(-1..(MaxImages - 1))]

RECURSIVE SeqsUpTo(_, _)
SeqsUpTo(S, k) ==
  IF k = 0 THEN {<<>>}
  ELSE LET shorter == SeqsUpTo(S, k - 1)
       IN shorter \cup {Append(s, x) : s \in {q \in shorter : Len(q) = k - 1}, x \in S}

VARIABLES
  image_paths,                        \* the resolved images, in order
  image_display_duration,
  transition_duration,
  music_segment_start_time,
  audio_segment_duration_from_music,
  texts,
  enable_image_animations,
  base_video_size,                    \* the size concatenate_videoclips reports
  fps,
  video_aspect_ratio,
  position,                           \* the position of each text of texts
  pc,                                 \* the stage the request is at
  processed_image_clips,
  slot_fade,                          \* crossfadeout applied to each processed clip
  base_video,
  final_video_clip,
  text_clips_to_composite,
  text_pos,                           \* position of the text loop in texts
  clip_start,                         \* start of each text layer
  full_audio_clip_main,
  temp_audio_segment_intermediate,
  audio_segment_final_for_video,
  total_video_duration,
  duration,                           \* duration of every handle opened
  audio,                              \* final_video_clip.audio
  segment_op,                         \* the call that made the final segment
  closed,                             \* the close() calls that completed, in order
  result,                             \* what the pipeline returns
  exit,                               \* "running", "returned" or "raised"
  write_videofile_calls,
  output_exists,                      \* a file exists at output_video_path
  response,                           \* HTTP status of the request, 0 before it ends
  stages,                             \* the stages that completed, in order
  audio_file,                         \* what lines 397-402 found at audio_path
  directory_listing,                  \* os.listdir(directory), in the order returned
  file_id,                            \* the identifier looked up
  resolved,                           \* what resolve_file_id_to_path gave
  files,                              \* the paths at which a file exists
  uuids,                              \* the number of uuid4() calls made
  requests,                           \* the requests of the storage endpoints
  writes,                             \* the files opened for writing, by whom
  image_size,                         \* (w, h) of the image of a slide
  video_size,                         \* (video_w, video_h)
  resized_size,                       \* .size of resized_clip, once made
  cropped_size,                       \* .size of cropped_clip, once made
  stat,                               \* what os.path tells of each path
  sweep,                              \* the call of cleanup_old_files
  in_flight                           \* a create-video request and its inputs

request == <<image_paths, image_display_duration, transition_duration,
             music_segment_start_time, audio_segment_duration_from_music, texts,
             enable_image_animations, base_video_size, fps, video_aspect_ratio,
             position>>
visual == <<processed_image_clips, slot_fade, base_video, final_video_clip,
            text_clips_to_composite, text_pos, clip_start, total_video_duration>>
audio_vars == <<full_audio_clip_main, temp_audio_segment_intermediate,
                audio_segment_final_for_video, audio, segment_op>>
outcome == <<closed, result, exit, write_videofile_calls, output_exists, response>>
pipeline == <<request, pc, visual, audio_vars, duration, outcome, stages, audio_file>>
lookup == <<directory_listing, file_id, resolved>>
store == <<files, uuids, requests, writes>>
geometry == <<image_size, video_size, resized_size, cropped_size>>
sweeping == <<stat, sweep, in_flight>>
storage == <<lookup, store, geometry, sweeping>>
vars == <<pipeline, storage>>

opened == DOMAIN duration

\* The handles of S are created with duration d.
Open(S, d) == [h \in opened \cup S |-> IF h \in S THEN d ELSE duration[h]]

\* lines 202-216: the locals of the pipeline before its first statement,
\* and the request before its answer
Locals ==
  /\ processed_image_clips = <<>>
  /\ slot_fade = <<>>
  /\ base_video = None
  /\ final_video_clip = None
  /\ text_clips_to_composite = <<>>
  /\ text_pos = 1
  /\ clip_start = <<>>
  /\ full_audio_clip_main = None
  /\ temp_audio_segment_intermediate = None
  /\ audio_segment_final_for_video = None
  /\ total_video_duration = 0
  /\ duration = <<>>
  /\ audio = None
  /\ segment_op = NoSegmentOp
  /\ closed = <<>>
  /\ result = NoResult
  /\ exit = "running"
  /\ write_videofile_calls = 0
  /\ output_exists = FALSE
  /\ response = 0
  /\ stages = <<>>
  /\ audio_file = "unchecked"

\* lines 70-72 and 56: the defaults of fps, of video_aspect_ratio and of the
\* position of a text
DefaultFields ==
  /\ fps = 24
  /\ video_aspect_ratio = "16:9"
  /\ position = [k \in DOMAIN texts |-> "bottom"]

\* No pipeline runs.
PipelineIdle ==
  /\ image_paths = <<>>
  /\ texts = <<>>
  /\ enable_image_animations = FALSE
  /\ base_video_size = "video_size"
  /\ image_display_duration = 2
  /\ transition_duration = 0
  /\ music_segment_start_time = 0
  /\ audio_segment_duration_from_music = {}
  /\ DefaultFields
  /\ pc = "idle"
  /\ Locals

\* What a call of resolve_file_id_to_path gives: nothing yet, the
\* HTTPException of line 91, or the path of line 92
NotCalled == [status_code |-> 0, path |-> <<>>]
NotFound == [status_code |-> 404, path |-> <<>>]
Returned(path) == [status_code |-> 200, path |-> path]

\* No lookup is made.
NoLookup ==
  /\ directory_listing = <<>>
  /\ file_id = <<>>
  /\ resolved = NotCalled

\* No slide is built from an image of a given size.
NoGeometry ==
  /\ image_size = <<1, 1>>
  /\ video_size = <<1080, 1080>>
  /\ resized_size = <<>>
  /\ cropped_size = <<>>

\* cleanup_old_files before its first statement, called with age_in_hours
Called(age_in_hours) ==
  [at |-> "start", age_in_hours |-> age_in_hours, cutoff |-> 0,
   directories |-> <<>>, filenames |-> <<>>,
   files_deleted_count |-> 0, deletion_errors |-> <<>>]

\* A create-video request before its lookups
Requested ==
  [at |-> "resolve", image_path |-> <<>>, audio_path |-> <<>>, status_code |-> 0]

\* cleanup_old_files is not called and no request is in flight.
NoSweep ==
  /\ stat = <<>>
  /\ sweep = [Called(1) EXCEPT !.at = "idle"]
  /\ in_flight = [Requested EXCEPT !.at = "idle"]

\* No request of the storage endpoints is made.
NoStore ==
  /\ files = {}
  /\ uuids = 0
  /\ requests = <<>>
  /\ writes = {}

\* The requests, with any number of images: those that vary the texts, the
\* display duration and the transition, those that vary the display
\* duration, the start offset and the segment length, those whose timeline
\* the library reports with another size, and the animated ones with the
\* shortest slide and no or a short transition.
Init ==
  /\ image_paths \in {[k \in 1..n |-> k] : n \in 0..MaxImages}
  /\ \/ \* the timing fields, with the whole track as the segment
        /\ enable_image_animations = FALSE
        /\ texts \in SeqsUpTo(TextOverlay, MaxTexts)
        /\ base_video_size = "video_size"
        /\ image_display_duration \in {2 * h : h \in 1..MaxHalfDur}
        /\ transition_duration \in 0..MaxTrans
        /\ music_segment_start_time = 0
        /\ audio_segment_duration_from_music = {}
     \/ \* the audio fields, without transitions and without texts
        /\ enable_image_animations = FALSE
        /\ texts = <<>>
        /\ base_video_size = "video_size"
        /\ image_display_duration \in {2 * h : h \in 1..MaxHalfDur}
        /\ transition_duration = 0
        /\ music_segment_start_time \in 0..MaxStart
        /\ audio_segment_duration_from_music \in
             Optional(1..MaxSeg)
             \cup (IF music_segment_start_time > 0 THEN {{Absorbed}} ELSE {})
     \/ \* a timeline reported with another size than video_size
        /\ enable_image_animations = FALSE
        /\ texts \in SeqsUpTo(TextOverlay, MaxTexts)
        /\ base_video_size = "other"
        /\ image_display_duration = 2
        /\ transition_duration = 0
        /\ music_segment_start_time = 0
        /\ audio_segment_duration_from_music = {}
     \/ \* animated slides, with one text more
        /\ enable_image_animations = TRUE
        /\ texts \in SeqsUpTo(TextOverlay, MaxTexts + 1)
        /\ base_video_size = "video_size"
        /\ image_display_duration = 2
        /\ transition_duration \in 0..1
        /\ music_segment_start_time = 0
        /\ audio_segment_duration_from_music = {}
  /\ DefaultFields
  /\ pc = "resolve"
  /\ Locals
  /\ NoLookup
  /\ NoStore
  /\ NoGeometry
  /\ NoSweep


\* ------------------------------------------------- the image stage
\* animation_type without the test of image_index
animation_type_of_any_single_text ==
  IF enable_image_animations /\ Len(texts) = 1
  THEN "rotate" ELSE "up_down"

\* lines 204-206
animation_type ==
  IF enable_image_animations /\ Len(texts) = 1 /\ texts[1].image_index = {}
  THEN "rotate" ELSE "up_down"

\* lines 301-304: the crossfade of a clip of duration clip_duration
actual_transition(transition, clip_duration) ==
  IF transition >= clip_duration
  THEN Max(MinTransition, Half(clip_duration))
  ELSE transition

\* line 297: slide i (from 0) is followed by a transition
HasTransition(i) == i < Len(image_paths) - 1 /\ transition_duration > 0

\* lines 296-306: the crossfadeout given to slide i, 0 when it gets none
SlotFade(i) ==
  IF HasTransition(i)
  THEN actual_transition(transition_duration, image_display_duration)
  ELSE 0

\* lines 235-306: the clips one pass of the image loop binds, in the order
\* it creates them; the last one is final_clip_for_this_image_slot.
SlideClips(i) ==
  <<H("base_image_clip", i), H("resized_clip", i), H("cropped_clip", i)>>
  \o (IF enable_image_animations
      THEN (IF animation_type = "up_down"
            THEN <<H("content_to_animate", i)>> ELSE <<>>)
           \o <<H("animated_content_clip", i), H("background_canvas", i),
                H("current_image_canvas_clip", i)>>
      ELSE <<>>)
  \o (IF HasTransition(i)
      THEN <<H("final_clip_for_this_image_slot", i)>> ELSE <<>>)

\* The except clause of line 479, entered with the handles of S open.
Raise(S, d) ==
  /\ duration' = Open(S, d)
  /\ result' = Failure("Internal error during video generation")
  /\ pc' = "cleanup"

\* lines 230-317: one pass of the image loop.  The pass raises after having
\* bound the first f clips (Image.open fails when f = 0), or completes.
ProcessImage ==
  /\ pc = "images"
  /\ Len(processed_image_clips) < Len(image_paths)
  /\ LET i == Len(processed_image_clips)
         clips == SlideClips(i)
     IN \E f \in 0..Len(clips) :
          IF f < Len(clips)
          THEN /\ Raise(Range(Prefix(clips, f)), image_display_duration)
               /\ UNCHANGED <<processed_image_clips, slot_fade>>
          ELSE /\ duration' = Open(Range(clips), image_display_duration)
               /\ processed_image_clips' =
                    Append(processed_image_clips, clips[Len(clips)])
               /\ slot_fade' = Append(slot_fade, SlotFade(i))
               /\ UNCHANGED <<result, pc>>
  /\ UNCHANGED <<request, base_video, final_video_clip, text_clips_to_composite,
                 text_pos, clip_start, total_video_duration, audio_vars, closed,
                 exit, write_videofile_calls, output_exists, response>>
  /\ stages' = IF Len(processed_image_clips') > Len(processed_image_clips)
                THEN Append(stages, "slide") ELSE stages
  /\ UNCHANGED <<audio_file, storage>>

\* ------------------------------------------------- the timeline
\* concatenate_videoclips(clips, method="compose"): the clips start at the
\* running sum of the durations before them
RECURSIVE concatenated_duration(_)
concatenated_duration(clips) ==
  IF clips = <<>> THEN 0
  ELSE duration[Head(clips)] + concatenated_duration(Tail(clips))

\* line 324: where the clip of index k starts in the concatenation
clip_start_in_timeline(k) ==
  concatenated_duration(Prefix(processed_image_clips, k))

\* line 320 without the test
some_image_clips(clips) == FALSE

\* line 320: not processed_image_clips
no_image_clips(clips) == clips = <<>>

\* lines 320-334
Concatenate ==
  /\ pc = "images"
  /\ Len(processed_image_clips) = Len(image_paths)
  /\ IF no_image_clips(processed_image_clips)
     THEN /\ result' = Failure("No valid image clips could be created.")
          /\ pc' = "cleanup"
          /\ UNCHANGED <<base_video, total_video_duration, duration>>
     ELSE \E raised \in BOOLEAN :
            IF raised
            THEN /\ Raise({}, 0)
                 /\ UNCHANGED <<base_video, total_video_duration>>
            ELSE LET d == concatenated_duration(processed_image_clips)
                 IN IF d <= 0
                    THEN /\ Raise({H("base_video", 0)}, d)
                         /\ base_video' = H("base_video", 0)
                         /\ UNCHANGED total_video_duration
                    ELSE /\ duration' = Open({H("base_video", 0)}, d)
                         /\ base_video' = H("base_video", 0)
                         /\ total_video_duration' = d
                         /\ pc' = "texts"
                         /\ UNCHANGED result
  /\ UNCHANGED <<request, processed_image_clips, slot_fade, final_video_clip,
                 text_clips_to_composite, text_pos, clip_start, audio_vars,
                 closed, exit, write_videofile_calls, output_exists, response>>
  /\ stages' = IF pc' = "texts" THEN Append(stages, "timeline") ELSE stages
  /\ UNCHANGED <<audio_file, storage>>

\* ------------------------------------------------- the text pass
\* clip_eff_duration without the transition
clip_full_duration(k_idx) == image_display_duration

\* lines 347-350
clip_eff_duration(k_idx) ==
  IF k_idx < Len(image_paths) - 1 /\ transition_duration > 0
  THEN image_display_duration
         - Min(transition_duration, Half(image_display_duration))
  ELSE image_display_duration

\* lines 345-351: the loop over range(image_index)
RECURSIVE current_start_time(_)
current_start_time(image_index) ==
  IF image_index <= 0 THEN 0
  ELSE current_start_time(image_index - 1) + clip_eff_duration(image_index - 1)

\* line 344
IndexInRange(text_data) ==
  /\ text_data.image_index # {}
  /\ 0 <= Value(text_data.image_index)
  /\ Value(text_data.image_index) < Len(processed_image_clips)

\* lines 342-353
text_start_time(text_data) ==
  IF IndexInRange(text_data)
  THEN current_start_time(Value(text_data.image_index)) ELSE 0

\* text_duration without the timeline's duration for a global text
text_duration_of_a_slide(text_data) ==
  image_display_duration

text_duration(text_data) ==
  IF IndexInRange(text_data)
  THEN image_display_duration ELSE total_video_duration

\* lines 362-364: the duration of the layer once cut at the timeline's end
clipped_duration(start, d) ==
  IF start + d > total_video_duration
  THEN Max(0, total_video_duration - start)
  ELSE d

\* lines 341-366: one pass of the text loop
ProcessText ==
  /\ pc = "texts"
  /\ text_pos <= Len(texts)
  /\ LET text_data == texts[text_pos]
         start == text_start_time(text_data)
         d == text_duration(text_data)
         txt_clip_candidate == H("txt_clip_candidate", text_pos)
     IN IF d <= 0
        THEN /\ text_pos' = text_pos + 1
             /\ UNCHANGED <<text_clips_to_composite, clip_start, duration, result, pc>>
        ELSE \E raised \in BOOLEAN :
               IF raised
               THEN /\ Raise({}, 0)
                    /\ UNCHANGED <<text_clips_to_composite, clip_start, text_pos>>
               ELSE /\ duration' = Open({txt_clip_candidate}, clipped_duration(start, d))
                    /\ clip_start' = [h \in DOMAIN clip_start \cup {txt_clip_candidate} |->
                                        IF h = txt_clip_candidate THEN start
                                        ELSE clip_start[h]]
                    /\ text_clips_to_composite' =
                         IF clipped_duration(start, d) > 0
                         THEN Append(text_clips_to_composite, txt_clip_candidate)
                         ELSE text_clips_to_composite
                    /\ text_pos' = text_pos + 1
                    /\ UNCHANGED <<result, pc>>
  /\ UNCHANGED <<request, processed_image_clips, slot_fade, base_video,
                 final_video_clip, total_video_duration, audio_vars, closed,
                 exit, write_videofile_calls, output_exists, response>>
  /\ stages' = IF text_pos' > text_pos THEN Append(stages, "text") ELSE stages
  /\ UNCHANGED <<audio_file, storage>>

\* .size of a clip that is meant to fill the canvas: video_size, except for
\* the timeline when concatenate_videoclips reports another size (the case
\* lines 325, 372 and 381 test for)
size(h) ==
  IF h = H("base_video", 0) THEN base_video_size ELSE "video_size"

\* lines 371-393: the text layers are composited over the timeline, or the
\* timeline itself is the final clip.  A timeline of another size is resized
\* to video_size first (lines 372-374, 381-383).  The resize or the
\* composite may raise.
Composite ==
  /\ pc = "texts"
  /\ text_pos > Len(texts)
  /\ LET mismatch == size(base_video) # "video_size"
         resized == H("base_video", 1)
         composite == H("final_video_clip", 1)
         forced == H("final_video_clip", 3)
     IN IF text_clips_to_composite # <<>>
        THEN \E raised \in {"resize", "composite", "none"} :
               /\ raised = "resize" => mismatch
               /\ base_video' = IF mismatch /\ raised # "resize"
                                THEN resized ELSE base_video
               /\ IF raised # "none"
                  THEN /\ Raise({base_video'} \ opened, total_video_duration)
                       /\ UNCHANGED final_video_clip
                  ELSE /\ duration' = Open(({base_video'} \ opened) \cup {composite},
                                           total_video_duration)
                       /\ final_video_clip' = composite
                       /\ pc' = "audio_file"
                       /\ UNCHANGED result
        ELSE IF mismatch
        THEN \E raised \in BOOLEAN :
               IF raised
               THEN /\ final_video_clip' = base_video
                    /\ Raise({}, 0)
                    /\ UNCHANGED base_video
               ELSE /\ duration' = Open({forced}, total_video_duration)
                    /\ final_video_clip' = forced
                    /\ pc' = "audio_file"
                    /\ UNCHANGED <<base_video, result>>
        ELSE /\ final_video_clip' = base_video
             /\ pc' = "audio_file"
             /\ UNCHANGED <<base_video, duration, result>>
  /\ UNCHANGED <<request, processed_image_clips, slot_fade,
                 text_clips_to_composite, text_pos, clip_start,
                 total_video_duration, audio_vars, closed, exit,
                 write_videofile_calls, output_exists, response>>
  /\ stages' = IF pc' = "audio_file" THEN Append(stages, "composite") ELSE stages
  /\ UNCHANGED <<audio_file, storage>>


\* ------------------------------------------------- the audio stage
\* Return that goes on to the encoder
ReturnIgnored(S, d, msg) ==
  /\ duration' = Open(S, d)
  /\ result' = Failure(msg)
  /\ pc' = "encode"

\* The early returns of the try block (lines 398-402, 411, 420, 423, 451,
\* 457-472) with the handles of S open: the finally block follows.
Return(S, d, msg) ==
  /\ duration' = Open(S, d)
  /\ result' = Failure(msg)
  /\ pc' = "cleanup"

\* AudioFileUsable without the test of the size
AudioFileUsableOrEmpty(file) == file \in {"ok", "empty"}

\* lines 397-402: os.path.exists, os.access(R_OK) and getsize(...) == 0
AudioFileUsable(file) == file = "ok"

\* lines 397-402: what the file system says of audio_path at this moment
CheckAudioFile ==
  /\ pc = "audio_file"
  /\ \E file \in {"missing", "unreadable", "empty", "ok"} :
       /\ audio_file' = file
       /\ IF AudioFileUsable(file)
          THEN /\ pc' = "audio_open"
               /\ UNCHANGED <<duration, result>>
          ELSE Return({}, 0, "Audio file " \o file)
  /\ UNCHANGED <<request, visual, audio_vars, closed, exit,
                 write_videofile_calls, output_exists, response>>
  /\ UNCHANGED <<stages, storage>>

\* lines 405-420: AudioFileClip(audio_path) raises, or yields a track of some
\* duration whose reader is missing, fails on the test frame, or works
OpenAudio ==
  /\ pc = "audio_open"
  /\ \/ /\ Return({}, 0, "Failed during audio processing")
        /\ UNCHANGED full_audio_clip_main
     \/ \E track \in 1..MaxTrack, reader \in {"none", "get_frame fails", "ok"} :
          /\ full_audio_clip_main' = H("full_audio_clip_main", 0)
          /\ IF reader = "ok"
             THEN /\ duration' = Open({H("full_audio_clip_main", 0)}, track)
                  /\ pc' = "audio_segment"
                  /\ UNCHANGED result
             ELSE Return({H("full_audio_clip_main", 0)}, track,
                         "Audio reader: " \o reader)
  /\ UNCHANGED <<request, visual, temp_audio_segment_intermediate,
                 audio_segment_final_for_video, audio, segment_op, closed, exit,
                 write_videofile_calls, output_exists, response>>
  /\ UNCHANGED <<stages, audio_file, storage>>

\* StartBeyondTrack with > for >=
StartStrictlyBeyondTrack(start, track_duration) == start > track_duration

\* line 422
StartBeyondTrack(start, track_duration) == start >= track_duration

\* lines 425-427
subclip_end_time ==
  IF audio_segment_duration_from_music # {}
  THEN {music_segment_start_time + Value(audio_segment_duration_from_music)}
  ELSE {}

\* Clip.subclip(t_start, t_end) on a clip of duration clip_duration: t_end
\* defaults to the clip's end, and is not cut to it when given
subclip_duration(clip_duration, t_start, t_end) ==
  IF t_end = {} THEN clip_duration - t_start ELSE Value(t_end) - t_start

\* NeedsLoop with <= for <
NeedsLoopOrEqual(segment_duration, target) == segment_duration <= target

\* line 436
NeedsLoop(segment_duration, target) == segment_duration < target

\* audio_loop(clip, duration=target): nloops = int(target / clip.duration) + 1
\* copies of the clip are laid end to end
audio_loop_tiles(segment_duration, target) ==
  (target \div segment_duration) + 1

\* lines 437 and 440: the call that makes the final segment from the
\* extracted one; both start at the beginning of the extracted segment
FinalSegmentOp(segment_duration, target) ==
  IF NeedsLoop(segment_duration, target)
  THEN [op |-> "audio_loop", t_start |-> 0,
        tiles |-> audio_loop_tiles(segment_duration, target)]
  ELSE [op |-> "subclip", t_start |-> 0, tiles |-> 1]

\* audio_loop_duration without the cut of the last tile
audio_loop_whole_tiles(segment_duration, target) ==
  segment_duration * ((target \div segment_duration) + 1)

\* fx(audio_loop, duration=target): the segment is tiled
\* target / segment_duration + 1 times and the result is cut to the target.
\* (vfx names moviepy.video.fx.all; a build of the library that has no
\* audio_loop there raises at this call, which is f = 2 of ExtractSegment.)
audio_loop_duration(segment_duration, target) == target

\* BoundAudio without the test of line 432
BoundAudioAlways(segment_duration, final) == final

\* lines 432-433 and 443: set_audio(None) for a segment of duration 0,
\* set_audio(audio_segment_final_for_video) otherwise
BoundAudio(segment_duration, final) ==
  IF segment_duration = 0 THEN None ELSE final

\* lines 422-451: the segment is extracted, then looped or truncated, then
\* bound.  The block raises before a call that binds the f-th handle
\* (f = 1: the first subclip; 2: audio_loop or the second subclip;
\* 3: set_audio), or completes (f = 4).
ExtractSegment ==
  /\ pc = "audio_segment"
  /\ LET track == duration[full_audio_clip_main]
         temp == H("temp_audio_segment_intermediate", 0)
         final == H("audio_segment_final_for_video", 0)
         bound == H("final_video_clip", 2)
         temp_d == subclip_duration(track, music_segment_start_time, subclip_end_time)
         final_d == IF NeedsLoop(temp_d, total_video_duration)
                    THEN audio_loop_duration(temp_d, total_video_duration)
                    ELSE subclip_duration(temp_d, 0, {total_video_duration})
     IN IF StartBeyondTrack(music_segment_start_time, track)
        THEN /\ Return({}, 0, "Music start time is beyond the audio's total duration.")
             /\ UNCHANGED <<temp_audio_segment_intermediate,
                            audio_segment_final_for_video, final_video_clip, audio,
                            segment_op>>
        ELSE \E f \in 1..4 :
               /\ temp_audio_segment_intermediate' = IF f > 1 THEN temp ELSE None
               /\ audio_segment_final_for_video' =
                    IF f > 2 /\ temp_d # 0 THEN final ELSE None
               /\ final_video_clip' = IF f > 3 THEN bound ELSE final_video_clip
               /\ audio' = IF f > 3 THEN BoundAudio(temp_d, final) ELSE None
               /\ segment_op' = IF f > 2 /\ temp_d # 0
                                THEN FinalSegmentOp(temp_d, total_video_duration)
                                ELSE segment_op
               /\ LET made == [h \in opened \cup (IF f > 1 THEN {temp} ELSE {})
                                            \cup (IF f > 2 /\ temp_d # 0 THEN {final} ELSE {})
                                            \cup (IF f > 3 THEN {bound} ELSE {}) |->
                                 IF h = temp THEN temp_d
                                 ELSE IF h = final THEN final_d
                                 ELSE IF h = bound THEN total_video_duration
                                 ELSE duration[h]]
                  IN /\ duration' = made
                     /\ IF f < 4
                        THEN /\ result' = Failure("Failed during audio processing")
                             /\ pc' = "cleanup"
                        ELSE /\ pc' = "final_check"
                             /\ UNCHANGED result
  /\ UNCHANGED <<request, processed_image_clips, slot_fade, base_video,
                 text_clips_to_composite, text_pos, clip_start,
                 total_video_duration, full_audio_clip_main, closed, exit,
                 write_videofile_calls, output_exists, response>>
  /\ stages' = IF pc' = "final_check" THEN Append(stages, "audio") ELSE stages
  /\ UNCHANGED <<audio_file, storage>>

\* ------------------------------------------------- the encoder
\* lines 456-472: the last checks before the encoder
FinalCheck ==
  /\ pc = "final_check"
  /\ IF duration[final_video_clip] <= 0
     THEN Return({}, 0, "Error: Video has no duration before writing.")
     ELSE IF audio = None
     THEN /\ pc' = "encode"
          /\ UNCHANGED <<duration, result>>
     ELSE \E frame \in {"no make_frame", "get_frame fails", "ok"} :
            IF frame = "ok"
            THEN /\ pc' = "encode"
                 /\ UNCHANGED <<duration, result>>
            ELSE Return({}, 0, "Final audio track: " \o frame)
  /\ UNCHANGED <<request, visual, audio_vars, closed, exit,
                 write_videofile_calls, output_exists, response>>
  /\ UNCHANGED <<stages, audio_file, storage>>

\* lines 474-482: write_videofile completes, or raises, having written part
\* of the file or nothing
WriteVideo ==
  /\ pc = "encode"
  /\ write_videofile_calls' = write_videofile_calls + 1
  /\ \/ /\ output_exists' = TRUE
        /\ pc' = "cleanup"
        /\ UNCHANGED <<duration, result>>
     \/ /\ output_exists' \in BOOLEAN
        /\ Raise({}, 0)
  /\ UNCHANGED <<request, visual, audio_vars, closed, exit, response>>
  /\ stages' = Append(stages, "write_videofile")
  /\ UNCHANGED <<audio_file, storage>>

\* ------------------------------------------------- the finally block
Opt(h) == IF h # None THEN <<h>> ELSE <<>>

\* line 485
CloseFinalClip == Opt(final_video_clip)

\* line 488
CloseBaseVideo == Opt(base_video)

\* lines 507-508
CloseIntermediate ==
  IF /\ temp_audio_segment_intermediate # None
     /\ \/ audio_segment_final_for_video = None
        \/ temp_audio_segment_intermediate # audio_segment_final_for_video
  THEN <<temp_audio_segment_intermediate>> ELSE <<>>

\* lines 485-515: the close() calls of the finally block, in order
CloseOrder ==
  CloseFinalClip \o CloseBaseVideo \o processed_image_clips
  \o text_clips_to_composite \o Opt(audio_segment_final_for_video)
  \o CloseIntermediate \o Opt(full_audio_clip_main)

\* close() of a clip built from images is the no-op of the library's base
\* class.  The audio clips are copies that share the reader of the track;
\* close() of one of them, or of a clip that has one of them as its audio
\* track, ends the reader's process.
ReachesReader(h) ==
  \/ h \in {full_audio_clip_main, temp_audio_segment_intermediate,
            audio_segment_final_for_video}
  \/ h = final_video_clip /\ audio # None

\* Ending the reader's process may raise; the close() calls after the first
\* one that reaches the reader find the process ended.
CloseMayRaise(k) ==
  /\ ReachesReader(CloseOrder[k])
  /\ \A j \in 1..(k - 1) : ~ReachesReader(CloseOrder[j])

\* lines 483-518: the finally block runs the close() calls in order.  One of
\* them may raise: the calls after it are not made and the exception leaves
\* the function in place of its result.  Otherwise the function returns the
\* result it had, (True, output_path) when it fell through the try block.
Cleanup ==
  /\ pc = "cleanup"
  /\ \E f \in 0..Len(CloseOrder) :
       /\ f < Len(CloseOrder) => CloseMayRaise(f + 1)
       /\ closed' = Prefix(CloseOrder, f)
       /\ IF f = Len(CloseOrder)
          THEN /\ exit' = "returned"
               /\ result' = IF result = NoResult THEN Success ELSE result
          ELSE /\ exit' = "raised"
               /\ UNCHANGED result
  /\ pc' = "respond"
  /\ UNCHANGED <<request, visual, audio_vars, duration, write_videofile_calls,
                 output_exists, response>>
  /\ UNCHANGED <<stages, audio_file, storage>>

\* ------------------------------------------------- what a clip is made from
\* lines 235-444: the clips a clip was made from, by the call that made it
made_from(h) ==
  LET name == h[1]
      i == h[2]
  IN CASE name = "resized_clip" -> {H("base_image_clip", i)}
       [] name = "cropped_clip" -> {H("resized_clip", i)}
       [] name = "content_to_animate" -> {H("cropped_clip", i)}
       [] name = "animated_content_clip" ->
            IF animation_type = "up_down"
            THEN {H("content_to_animate", i)} ELSE {H("cropped_clip", i)}
       [] name = "current_image_canvas_clip" ->
            {H("background_canvas", i), H("animated_content_clip", i)}
       [] name = "final_clip_for_this_image_slot" ->
            IF enable_image_animations
            THEN {H("current_image_canvas_clip", i)} ELSE {H("cropped_clip", i)}
       [] name = "base_video" ->
            IF i = 0 THEN Range(processed_image_clips) ELSE {H("base_video", 0)}
       [] name = "final_video_clip" ->
            IF i = 1 THEN {base_video} \cup Range(text_clips_to_composite)
            ELSE IF i = 3 THEN {H("base_video", 0)}
            ELSE {IF H("final_video_clip", 1) \in opened
                  THEN H("final_video_clip", 1)
                  ELSE IF H("final_video_clip", 3) \in opened
                  THEN H("final_video_clip", 3)
                  ELSE H("base_video", 0)}
                 \cup (IF audio # None THEN {audio} ELSE {})
       [] name = "temp_audio_segment_intermediate" ->
            {H("full_audio_clip_main", 0)}
       [] name = "audio_segment_final_for_video" ->
            {H("temp_audio_segment_intermediate", 0)}
       [] OTHER -> {}

\* h was made from s, in one call or in several
RECURSIVE derived_from(_, _)
derived_from(h, s) ==
  \/ s \in made_from(h)
  \/ \E m \in made_from(h) : derived_from(m, s)

\* ------------------------------------------------- the endpoint
\* lines 580-599: the identifiers resolve to files, or a 404 is raised
Resolve ==
  /\ pc = "resolve"
  /\ \E found \in BOOLEAN :
       IF found
       THEN /\ pc' = "images"
            /\ UNCHANGED response
       ELSE /\ pc' = "done"
            /\ response' = 404
  /\ UNCHANGED <<request, visual, audio_vars, duration, closed, result, exit,
                 write_videofile_calls, output_exists>>
  /\ UNCHANGED <<stages, audio_file, storage>>

\* status_code without the test of success
status_code_of_any_return(returned, success) ==
  IF returned THEN 200 ELSE 500

\* lines 610-620: 200 for (True, path), HTTPException(500) for
\* (False, message); an exception that left the pipeline is answered 500 by
\* the framework
status_code(returned, success) ==
  IF returned /\ success THEN 200 ELSE 500

\* lines 610-620: the answer.  On a failure the output file is removed if it
\* exists, and an OSError of os.remove is swallowed; an exception that left
\* the pipeline goes through the endpoint untouched and is answered as 500.
Respond ==
  /\ pc = "respond"
  /\ pc' = "done"
  /\ response' = status_code(exit = "returned", result.success)
  /\ IF exit = "returned" /\ result.success
     THEN UNCHANGED output_exists
     ELSE IF exit = "returned" /\ output_exists
     THEN output_exists' \in BOOLEAN
     ELSE UNCHANGED output_exists
  /\ UNCHANGED <<request, visual, audio_vars, duration, closed, result, exit,
                 write_videofile_calls>>
  /\ UNCHANGED <<stages, audio_file, storage>>

Next ==
  \/ Resolve
  \/ ProcessImage
  \/ Concatenate
  \/ ProcessText
  \/ Composite
  \/ CheckAudioFile
  \/ OpenAudio
  \/ ExtractSegment
  \/ FinalCheck
  \/ WriteVideo
  \/ Cleanup
  \/ Respond

Spec == Init /\ [][Next]_vars


\* ------------------------------------------------- resolve_file_id_to_path
\* File names and identifiers are strings over Char.
Char == {"a", "b"}

Strings(S, lo, hi) == UNION {[1..k -> S] : k \in lo..hi}

\* os.listdir gives each entry of the directory once, in any order
Listings ==
  {l \in SeqsUpTo(Strings(Char, 1, MaxNameLen), MaxFiles) :
     \A j, k \in 1..Len(l) : j # k => l[j] # l[k]}

\* startswith that stops at the end of the shorter string
startswith_up_to_shorter(f, prefix) ==
  \A k \in 1..Min(Len(f), Len(prefix)) : f[k] = prefix[k]

\* str.startswith
startswith(f, prefix) ==
  /\ Len(prefix) <= Len(f)
  /\ SubSeq(f, 1, Len(prefix)) = prefix

\* line 89
matching_files(id, listing) ==
  LET Matches(f) == startswith(f, id)
  IN SelectSeq(listing, Matches)

\* lines 87-92: HTTPException(status_code=404), or the path returned;
\* os.path.join(directory, name) is the pair <<directory, name>>
resolve_file_id_to_path(id, directory, listing) ==
  IF matching_files(id, listing) = <<>>
  THEN NotFound
  ELSE Returned(<<directory, matching_files(id, listing)[1]>>)

\* Any directory and any identifier a request can carry
InitResolve ==
  /\ PipelineIdle
  /\ NoStore
  /\ NoGeometry
  /\ NoSweep
  /\ directory_listing \in Listings
  /\ file_id \in Strings(Char, 0, MaxNameLen)
  /\ resolved = NotCalled

\* A call of resolve_file_id_to_path on UPLOAD_DIR
ResolveInUploads ==
  /\ resolved = NotCalled
  /\ resolved' = resolve_file_id_to_path(file_id, "uploaded_files", directory_listing)
  /\ UNCHANGED <<pipeline, sweeping, geometry, directory_listing, file_id, store>>

\* A call of resolve_file_id_to_path on OUTPUT_DIR
ResolveInOutputs ==
  /\ resolved = NotCalled
  /\ resolved' = resolve_file_id_to_path(file_id, "processed_outputs", directory_listing)
  /\ UNCHANGED <<pipeline, sweeping, geometry, directory_listing, file_id, store>>

NextResolve ==
  \/ ResolveInUploads
  \/ ResolveInOutputs

SpecResolve == InitResolve /\ [][NextResolve]_vars

\* ------------------------------------------------- the request body
\* line 24
MAX_IMAGES == 5

\* line 595: the keys of aspect_ratios, which the pattern of line 72 names
aspect_ratios == {"16:9", "9:16", "1:1"}

\* lines 59-72 with display duration >= 0 allowed
CreateVideoFromImagesRequest_ge ==
  /\ Len(image_paths) <= MAX_IMAGES
  /\ image_display_duration >= 0
  /\ transition_duration >= 0
  /\ music_segment_start_time >= 0
  /\ \A x \in audio_segment_duration_from_music : x > 0
  /\ fps > 0
  /\ \A k \in DOMAIN texts : position[k] \in {"top", "center", "bottom"}
  /\ video_aspect_ratio \in aspect_ratios

\* lines 52-73: the constraints of the fields of CreateVideoFromImagesRequest
\* and of the TextOverlay of each text, on a body that has every required
\* field with a value of its type.  image_paths stands for image_file_ids,
\* which line 581 resolves one to one and in order.
CreateVideoFromImagesRequest ==
  /\ Len(image_paths) <= MAX_IMAGES
  /\ image_display_duration > 0
  /\ transition_duration >= 0
  /\ music_segment_start_time >= 0
  /\ \A x \in audio_segment_duration_from_music : x > 0
  /\ fps > 0
  /\ \A k \in DOMAIN texts : position[k] \in {"top", "center", "bottom"}
  /\ video_aspect_ratio \in aspect_ratios

\* line 579: the framework builds the request from the body before it calls
\* create_video_from_images, and answers 422 without calling it when a
\* constraint fails.
Validate ==
  /\ pc = "validate"
  /\ IF CreateVideoFromImagesRequest
     THEN /\ pc' = "resolve"
          /\ UNCHANGED response
     ELSE /\ pc' = "done"
          /\ response' = 422
  /\ UNCHANGED <<request, visual, audio_vars, duration, closed, result, exit,
                 write_videofile_calls, output_exists>>
  /\ UNCHANGED <<stages, audio_file, storage>>

\* A body with no, one or MAX_IMAGES images and no or one global text
\* and every other field at a value its constraint allows; and the bodies
\* that move one field across the limit of its constraint.
InitValidate ==
  /\ enable_image_animations = FALSE
  /\ base_video_size = "video_size"
  /\ \E field \in {"none", "image_file_ids", "image_display_duration",
                    "transition_duration", "music_segment_start_time",
                    "audio_segment_duration_from_music", "fps",
                    "video_aspect_ratio", "position"} :
       /\ image_paths \in
            {[k \in 1..len |-> k] :
               len \in CASE field = "none" -> {0, 1, MAX_IMAGES}
                         [] field = "image_file_ids" -> 0..(MAX_IMAGES + 1)
                         [] OTHER -> {1}}
       /\ image_display_duration \in
            IF field = "image_display_duration" THEN {-2, 0, 2, 4} ELSE {2}
       /\ transition_duration \in
            IF field = "transition_duration" THEN {-1, 0, 1} ELSE {0}
       /\ music_segment_start_time \in
            IF field = "music_segment_start_time" THEN {-1, 0, 1} ELSE {0}
       /\ audio_segment_duration_from_music \in
            IF field = "audio_segment_duration_from_music"
            THEN {{}, {-1}, {0}, {1}} ELSE {{}}
       /\ fps \in IF field = "fps" THEN {-1, 0, 1, 24} ELSE {24}
       /\ video_aspect_ratio \in
            IF field = "video_aspect_ratio"
            THEN aspect_ratios \cup {"4:3", ""} ELSE {"16:9"}
       /\ texts \in
            CASE field = "none" -> {<<>>, <<[image_index |-> {}]>>}
              [] field = "position" -> {<<t>> : t \in TextOverlay}
              [] OTHER -> {<<>>}
       /\ position \in
            IF field = "position"
            THEN [DOMAIN texts -> {"top", "center", "bottom", "middle", ""}]
            ELSE [DOMAIN texts -> {"bottom"}]
  /\ pc = "validate"
  /\ Locals
  /\ NoLookup
  /\ NoStore
  /\ NoGeometry
  /\ NoSweep

NextValidate ==
  \/ Validate
  \/ Next

SpecValidate == InitValidate /\ [][NextValidate]_vars

\* ------------------------------------------------- the size of a slide
\* int(x / 2) for an integer x: int() drops the fraction, towards zero
IntHalf(x) == IF x >= 0 THEN x \div 2 ELSE -((-x) \div 2)

\* len(range(length)[lo:hi]): a slice of an array takes a negative index from
\* the end and stops at the ends of the array
SliceLen(length, lo, hi) ==
  LET from_start(k) == IF k < 0 THEN Max(0, length + k) ELSE Min(k, length)
  IN Max(0, from_start(hi) - from_start(lo))

\* The values of aspect_ratios, line 595
VideoSizes == {<<1920, 1080>>, <<1080, 1920>>, <<1080, 1080>>}

\* line 244 with the comparison turned around
img_aspect_below_video_aspect(w, h, video_w, video_h) == w * video_h < video_w * h

\* lines 241-244: img_aspect > video_aspect, for sides that are positive
\* and small enough for the two quotients to differ as floats whenever they
\* differ
img_aspect_above_video_aspect(w, h, video_w, video_h) == w * video_h > video_w * h

\* lines 244-247: resize(height=video_h) gives int(w * video_h / h) by
\* video_h, resize(width=video_w) gives video_w by int(h * video_w / w)
resize(w, h, video_w, video_h) ==
  IF img_aspect_above_video_aspect(w, h, video_w, video_h)
  THEN <<(w * video_h) \div h, video_h>>
  ELSE <<video_w, (h * video_w) \div w>>

\* line 249: crop(x_center=w / 2, y_center=h / 2, width=video_w,
\* height=video_h) cuts pic[int(y1):int(y2), int(x1):int(x2)] with
\* x1, x2 = x_center -+ width / 2 and y1, y2 = y_center -+ height / 2
crop(w, h, video_w, video_h) ==
  <<SliceLen(w, IntHalf(w - video_w), IntHalf(w + video_w)),
    SliceLen(h, IntHalf(h - video_h), IntHalf(h + video_h))>>

\* Any image of sides up to MaxSide, for any of the three sizes of the video
InitSlide ==
  /\ PipelineIdle
  /\ NoLookup
  /\ NoStore
  /\ NoSweep
  /\ image_size \in (1..MaxSide) \X (1..MaxSide)
  /\ video_size \in VideoSizes
  /\ resized_size = <<>>
  /\ cropped_size = <<>>

\* lines 244-247
Resize ==
  /\ resized_size = <<>>
  /\ resized_size' = resize(image_size[1], image_size[2],
                            video_size[1], video_size[2])
  /\ UNCHANGED <<pipeline, sweeping, lookup, store, image_size, video_size, cropped_size>>

\* line 249
Crop ==
  /\ resized_size # <<>>
  /\ cropped_size = <<>>
  /\ cropped_size' = crop(resized_size[1], resized_size[2],
                          video_size[1], video_size[2])
  /\ UNCHANGED <<pipeline, sweeping, lookup, store, image_size, video_size, resized_size>>

NextSlide ==
  \/ Resize
  \/ Crop

SpecSlide == InitSlide /\ [][NextSlide]_vars

\* ------------------------------------------------- the storage endpoints
\* upload_file, extract_audio, download_youtube_video and
\* create_video_from_images as clients of the two directories.  A request
\* takes its steps one at a time, between the steps of the others.
\* uuid4() gives an identifier it has not given before: the k-th call gives k.
\* A file name is the sequence of the parts it is formatted from, so that
\* f"{file_id}{file_extension}" begins with file_id.
Kind == {"upload_file", "extract_audio", "download_youtube_video",
         "create_video_from_images"}

Arrived(kind) == [kind |-> kind, at |-> "start", id |-> 0, status_code |-> 0]

\* The names in a directory, in any order os.listdir may give them
RECURSIVE Orders(_)
Orders(S) ==
  IF S = {} THEN {<<>>}
  ELSE UNION {{<<f>> \o l : l \in Orders(S \ {f})} : f \in S}

listdir(directory) == Orders({path[2] : path \in {q \in files : q[1] = directory}})

\* lines 553 and 581-592: the lookups an endpoint makes before it generates
\* its identifier; the audio of create_video_from_images is looked up in
\* OUTPUT_DIR when UPLOAD_DIR has it not
Lookups(kind, id, in_uploads, in_outputs) ==
  IF kind = "extract_audio"
  THEN resolve_file_id_to_path(id, "uploaded_files", in_uploads)
  ELSE IF kind = "create_video_from_images"
  THEN IF resolve_file_id_to_path(id, "uploaded_files", in_uploads) # NotFound
       THEN resolve_file_id_to_path(id, "uploaded_files", in_uploads)
       ELSE resolve_file_id_to_path(id, "processed_outputs", in_outputs)
  ELSE Returned(<<>>)

\* The steps before uuid4(): the size test of upload_file (line 525), which
\* answers 413 for an unknown size and for one above 50 MB, and the lookups
\* of extract_audio and create_video_from_images for an identifier q, which
\* answer 404
Begin(r) ==
  /\ requests[r].at = "start"
  /\ \E answer \in {200, 413, 404} :
       /\ answer = 413 => requests[r].kind = "upload_file"
       /\ answer = 404 =>
            \E q \in 0..uuids, in_uploads \in listdir("uploaded_files"),
               in_outputs \in listdir("processed_outputs") :
              Lookups(requests[r].kind, <<q>>, in_uploads, in_outputs) = NotFound
       /\ answer = 200 =>
            \E q \in 0..uuids, in_uploads \in listdir("uploaded_files"),
               in_outputs \in listdir("processed_outputs") :
              Lookups(requests[r].kind, <<q>>, in_uploads, in_outputs) # NotFound
       /\ requests' = [requests EXCEPT ![r].at = IF answer = 200
                                                THEN "uuid4" ELSE "done",
                                       ![r].status_code = IF answer = 200
                                                         THEN 0 ELSE answer]
  /\ UNCHANGED <<pipeline, sweeping, geometry, lookup, files, uuids, writes>>

\* lines 528, 557, 169 and 598: str(uuid.uuid4())
Uuid4(r) ==
  /\ requests[r].at = "uuid4"
  /\ uuids' = uuids + 1
  /\ requests' = [requests EXCEPT ![r].at = "write", ![r].id = uuids + 1]
  /\ UNCHANGED <<pipeline, sweeping, geometry, lookup, files, writes>>

\* file_location without the identifier
file_location_of_extension(id, file_extension) ==
  <<"uploaded_files", <<file_extension>>>>

\* line 539: os.path.join(UPLOAD_DIR, f"{file_id}{file_extension}")
file_location(id, file_extension) ==
  <<"uploaded_files", <<id, file_extension>>>>

\* Targets with the upload written beside the outputs
Targets_in_outputs(kind, id, file_extension) ==
  IF kind = "download_youtube_video" THEN {<<"uploaded_files", <<id, ".mp4">>>>}
  ELSE {<<"processed_outputs", <<id, file_extension>>>>}

\* The paths an endpoint opens for writing: line 539-541; line 558 and
\* write_audiofile; line 170 (the template of yt-dlp); line 599 and
\* write_videofile, which also writes the audio to a temporary file named
\* after the output in the working directory
Targets(kind, id, file_extension) ==
  IF kind = "upload_file" THEN {file_location(id, file_extension)}
  ELSE IF kind = "extract_audio" THEN {<<"processed_outputs", <<id, ".mp3">>>>}
  ELSE IF kind = "download_youtube_video" THEN {<<"uploaded_files", <<id, ".mp4">>>>}
  ELSE {<<"processed_outputs", <<id, ".mp4">>>>,
        <<".", <<id, "TEMP_MPY_wvf_snd.mp4">>>>}

\* The files are opened for writing, which creates or truncates them; the
\* writing completes or fails.
Write(r) ==
  /\ requests[r].at = "write"
  /\ \E file_extension \in {".jpg", ".mp3"}, ok \in BOOLEAN :
       LET targets == Targets(requests[r].kind, requests[r].id, file_extension)
       IN /\ writes' = writes \cup {[by |-> r, path |-> path,
                                      existed |-> path \in files] : path \in targets}
          /\ files' = files \cup targets
          /\ requests' = [requests EXCEPT ![r].at = "answer",
                                          ![r].status_code = IF ok THEN 200 ELSE 500]
  /\ UNCHANGED <<pipeline, sweeping, geometry, lookup, uuids>>

\* The answer.  extract_audio and create_video_from_images remove their
\* output after a failure (lines 562-564, 617-619), an OSError being
\* swallowed; the temporary audio file is removed by write_videofile.
Answer(r) ==
  /\ requests[r].at = "answer"
  /\ LET id == requests[r].id
         removable ==
           {path \in files :
              \/ path = <<".", <<id, "TEMP_MPY_wvf_snd.mp4">>>>
              \/ /\ requests[r].status_code = 500
                 /\ path \in {<<"processed_outputs", <<id, ".mp3">>>>,
                              <<"processed_outputs", <<id, ".mp4">>>>}}
     IN \E removed \in SUBSET removable : files' = files \ removed
  /\ requests' = [requests EXCEPT ![r].at = "done"]
  /\ UNCHANGED <<pipeline, sweeping, geometry, lookup, uuids, writes>>

\* Requests of any kinds, on empty directories
InitStore ==
  /\ PipelineIdle
  /\ NoLookup
  /\ NoGeometry
  /\ NoSweep
  /\ files = {}
  /\ uuids = 0
  /\ requests \in [1..MaxRequests -> {Arrived(kind) : kind \in Kind}]
  /\ writes = {}

NextStore ==
  \/ \E r \in DOMAIN requests : Begin(r)
  \/ \E r \in DOMAIN requests : Uuid4(r)
  \/ \E r \in DOMAIN requests : Write(r)
  \/ \E r \in DOMAIN requests : Answer(r)

SpecStore == InitStore /\ [][NextStore]_vars

\* ------------------------------------------------- cleanup_old_files
\* Time is counted in hours.  line 639: time.time()
Now == MaxAge + 1

\* line 648 with a file as old as the cutoff taken for old
mtime_not_after(mtime, cutoff) == mtime <= cutoff

\* line 648: os.path.getmtime(filepath) < cutoff
mtime_before(mtime, cutoff) == mtime < cutoff

\* line 648: os.path.isfile(filepath) and os.path.getmtime(filepath) < cutoff
old_file(filepath, cutoff) ==
  /\ filepath \in files
  /\ stat[filepath].isfile
  /\ mtime_before(stat[filepath].mtime, cutoff)

\* lines 639-643
StartCleanup ==
  /\ sweep.at = "start"
  /\ sweep' = [sweep EXCEPT !.at = "listdir",
                            !.cutoff = Now - sweep.age_in_hours,
                            !.directories = <<"uploaded_files", "processed_outputs">>]
  /\ UNCHANGED <<pipeline, lookup, store, geometry, stat, in_flight>>

\* line 645: os.listdir(directory_to_clean), or line 654 after the last
\* directory
ListDirectory ==
  /\ sweep.at = "listdir"
  /\ IF sweep.directories = <<>>
     THEN sweep' = [sweep EXCEPT !.at = "done"]
     ELSE \E listing \in listdir(Head(sweep.directories)) :
            sweep' = [sweep EXCEPT !.at = "files", !.filenames = listing]
  /\ UNCHANGED <<pipeline, lookup, store, geometry, stat, in_flight>>

\* lines 645-652: one pass of the loop over the names; os.remove may raise
CleanFile ==
  /\ sweep.at = "files"
  /\ IF sweep.filenames = <<>>
     THEN /\ sweep' = [sweep EXCEPT !.at = "listdir",
                                    !.directories = Tail(sweep.directories)]
          /\ UNCHANGED files
     ELSE LET filepath == <<Head(sweep.directories), Head(sweep.filenames)>>
          IN IF old_file(filepath, sweep.cutoff)
             THEN \E raised \in BOOLEAN :
                    IF raised
                    THEN /\ sweep' = [sweep EXCEPT
                                        !.filenames = Tail(sweep.filenames),
                                        !.deletion_errors =
                                          Append(sweep.deletion_errors, filepath)]
                         /\ UNCHANGED files
                    ELSE /\ sweep' = [sweep EXCEPT
                                        !.filenames = Tail(sweep.filenames),
                                        !.files_deleted_count =
                                          sweep.files_deleted_count + 1]
                         /\ files' = files \ {filepath}
             ELSE /\ sweep' = [sweep EXCEPT !.filenames = Tail(sweep.filenames)]
                  /\ UNCHANGED files
  /\ UNCHANGED <<pipeline, lookup, geometry, uuids, requests, writes, stat,
                 in_flight>>

\* lines 581-592: the lookups of a request for the image 1 and the audio 2
ResolveInputs ==
  /\ in_flight.at = "resolve"
  /\ \E in_uploads \in listdir("uploaded_files"),
        in_outputs \in listdir("processed_outputs") :
       LET image == resolve_file_id_to_path(<<1>>, "uploaded_files", in_uploads)
           music == Lookups("create_video_from_images", <<2>>, in_uploads, in_outputs)
       IN IF image = NotFound \/ music = NotFound
          THEN in_flight' = [in_flight EXCEPT !.at = "done", !.status_code = 404]
          ELSE in_flight' = [in_flight EXCEPT !.at = "image",
                                              !.image_path = image.path,
                                              !.audio_path = music.path]
  /\ UNCHANGED <<pipeline, lookup, store, geometry, stat, sweep>>

\* line 234: Image.open(img_path) raises when the file is not there, and the
\* request is answered 500 (lines 479-482, 620)
OpenImage ==
  /\ in_flight.at = "image"
  /\ IF in_flight.image_path \in files
     THEN in_flight' = [in_flight EXCEPT !.at = "audio"]
     ELSE in_flight' = [in_flight EXCEPT !.at = "done", !.status_code = 500]
  /\ UNCHANGED <<pipeline, lookup, store, geometry, stat, sweep>>

\* lines 397-398: os.path.exists(audio_path); a request that finds its audio
\* goes on as Spec tells, here to its answer
FindAudio ==
  /\ in_flight.at = "audio"
  /\ in_flight' = [in_flight EXCEPT
                     !.at = "done",
                     !.status_code = IF in_flight.audio_path \in files
                                     THEN 200 ELSE 500]
  /\ UNCHANGED <<pipeline, lookup, store, geometry, stat, sweep>>

\* MaxEntries entries, each in one of the two directories, a regular file or
\* not, last modified at any time up to now; cleanup_old_files is called for
\* any age while a request for the image 1 and the audio 2 arrives.
InitSweep ==
  /\ PipelineIdle
  /\ NoLookup
  /\ NoGeometry
  /\ uuids = MaxEntries
  /\ requests = <<>>
  /\ writes = {}
  /\ \E directory \in [1..MaxEntries -> {"uploaded_files", "processed_outputs"}] :
       files = {<<directory[k], <<k, ".bin">>>> : k \in 1..MaxEntries}
  /\ stat \in [files -> [isfile : BOOLEAN, mtime : 0..Now]]
  /\ sweep \in {Called(age_in_hours) : age_in_hours \in 1..MaxAge}
  /\ in_flight = Requested

NextSweep ==
  \/ StartCleanup
  \/ ListDirectory
  \/ CleanFile
  \/ ResolveInputs
  \/ OpenImage
  \/ FindAudio

SpecSweep == InitSweep /\ [][NextSweep]_vars

\* =================================================== the claims
n == Len(image_paths)

RECURSIVE Sum(_)
Sum(s) == IF s = <<>> THEN 0 ELSE Head(s) + Sum(Tail(s))

Succeeded == exit = "returned" /\ result.success

\* The text a layer was made from, and the slide index it names
TextOf(h) == texts[h[2]]
Indexed(h) == TextOf(h).image_index # {}
IndexOf(h) == Value(TextOf(h).image_index)

\* C1: on a successful run the final clip lasts n * d minus the sum, over the
\* pairs of consecutive slides, of the transition applied between them.
C1_DurationMinusOverlaps ==
  Succeeded =>
    duration[final_video_clip] =
      n * image_display_duration - Sum(Prefix(slot_fade, n - 1))

\* C2: an audio track bound to the final clip has exactly the duration of the
\* final clip, which is the timeline's.
C2_AudioMatchesVideo ==
  audio # None =>
    /\ duration[audio] = duration[final_video_clip]
    /\ duration[audio] = total_video_duration

\* A successful request whose segment was longer than the timeline and was
\* truncated to it
C2_Witness ==
  /\ pc = "done"
  /\ response = 200
  /\ audio # None
  /\ duration[temp_audio_segment_intermediate] > total_video_duration

\* C3: no handle is closed more than once.
C3_NoDoubleClose == \A h \in Range(closed) : Count(closed, h) <= 1

\* C4: when the pipeline has returned, every handle it opened is closed.
C4_AllClosed == exit = "returned" => opened \subseteq Range(closed)

\* C5: a request that ended in failure leaves no file at its output path.
C5_NoOutputAfterFailure ==
  (pc = "done" /\ response # 200) => ~output_exists

\* C6: no composited layer comes from a text whose image_index is set and
\* lies outside 0..n-1.
C6_OutOfRangeDropped ==
  \A h \in Range(text_clips_to_composite) :
    Indexed(h) => IndexOf(h) \in 0..(n - 1)

\* C7: a layer for slide k starts after k slides that each last the display
\* duration less min(transition, half the display duration), the clamped
\* transition of the text pass, and lasts the display duration, cut so that it
\* ends no later than the timeline.
C7_TextInterval ==
  \A h \in Range(text_clips_to_composite) :
    (Indexed(h) /\ IndexOf(h) \in 0..(n - 1)) =>
      LET k == IndexOf(h)
          clamp == IF transition_duration > 0
                   THEN Min(transition_duration, Half(image_display_duration))
                   ELSE 0
          start == k * (image_display_duration - clamp)
      IN /\ clip_start[h] = start
         /\ duration[h] =
              Min(image_display_duration, total_video_duration - start)

\* A layer of the second slide, after a slide that has a transition
C7_Witness ==
  /\ transition_duration > 0
  /\ \E h \in Range(text_clips_to_composite) :
       /\ Indexed(h)
       /\ IndexOf(h) = 1
       /\ clip_start[h] > 0
       /\ clip_start[h] < image_display_duration

\* C8: a slide followed by a transition fades for min(transition, half its
\* duration); every other slide does not fade.
C8_FadeIsMin ==
  \A i \in 1..Len(slot_fade) :
    slot_fade[i] =
      IF i - 1 < n - 1 /\ transition_duration > 0
      THEN Min(transition_duration, Half(image_display_duration))
      ELSE 0

\* C9: when the transition is at least the display duration, the fade applied
\* is max(floor, half the display duration) and is shorter than the slide.
C9_ClampShorterThanSlide ==
  \A i \in 1..Len(slot_fade) :
    (i - 1 < n - 1 /\ transition_duration >= image_display_duration) =>
      /\ slot_fade[i] = Max(MinTransition, Half(image_display_duration))
      /\ slot_fade[i] < image_display_duration

\* C10: when the start offset is at or after the end of the track, no segment
\* is extracted, the encoder is not invoked, the pipeline answers with the
\* range error once the reader has been found to work, and the request ends
\* in an error.
StartBeyond ==
  /\ full_audio_clip_main # None
  /\ music_segment_start_time >= duration[full_audio_clip_main]

C10_StartBeyondTrackFails ==
  StartBeyond =>
    /\ temp_audio_segment_intermediate = None
    /\ audio_segment_final_for_video = None
    /\ audio = None
    /\ write_videofile_calls = 0
    /\ ~output_exists
    /\ pc \in {"audio_segment", "cleanup", "respond", "done"}
    /\ pc # "audio_segment" =>
         /\ ~result.success
         /\ result.message \in
              {"Music start time is beyond the audio's total duration.",
               "Audio reader: none", "Audio reader: get_frame fails"}
    /\ pc = "done" => response = 500

C10_Witness ==
  /\ pc = "done"
  /\ StartBeyond
  /\ result.message = "Music start time is beyond the audio's total duration."
  /\ response = 500


C13_SilentVideo ==
  (/\ temp_audio_segment_intermediate # None
   /\ duration[temp_audio_segment_intermediate] = 0
   /\ final_video_clip = H("final_video_clip", 2)) =>
     /\ audio = None
     /\ audio_segment_final_for_video = None
     /\ pc = "final_check" => result = NoResult
     /\ pc = "encode" => result = NoResult /\ write_videofile_calls = 0
     /\ pc \in {"cleanup", "respond", "done"} => write_videofile_calls = 1
     /\ (result # NoResult /\ ~result.success) =>
          /\ result = Failure("Internal error during video generation")
          /\ pc \in {"cleanup", "respond", "done"}
     /\ (pc = "done" /\ response # 200) =>
          \/ exit = "raised"
          \/ result = Failure("Internal error during video generation")

\* The request of a silent video answered with 200
C13_Witness ==
  /\ pc = "done"
  /\ response = 200
  /\ temp_audio_segment_intermediate # None
  /\ duration[temp_audio_segment_intermediate] = 0
  /\ audio = None
  /\ write_videofile_calls = 1
  /\ output_exists

\* The stages of a run that reaches the encoder, in the order of the code
StageOrder ==
  [k \in 1..Len(image_paths) |-> "slide"] \o <<"timeline">>
  \o [k \in 1..Len(texts) |-> "text"]
  \o <<"composite", "audio", "write_videofile">>

\* One step of a run, seen through the log of its stages
C14_Step ==
  /\ Len(stages') <= Len(StageOrder)
  /\ stages' = Prefix(StageOrder, Len(stages'))
  /\ write_videofile_calls' = Count(stages', "write_videofile")
  /\ write_videofile_calls' <= 1
  /\ write_videofile_calls' = 1 =>
       /\ stages' = StageOrder
       /\ \A k \in 1..Len(processed_image_clips') :
            duration'[processed_image_clips'[k]] > 0
       /\ duration'[base_video'] > 0
       /\ duration'[final_video_clip'] > 0
       /\ duration'[final_video_clip'] = total_video_duration'
  /\ result # NoResult => UNCHANGED <<stages, write_videofile_calls>>

C15_SizeMismatchAborts ==
  (base_video # None /\ size(H("base_video", 0)) # "video_size") =>
    write_videofile_calls = 0

BadAudioFile == audio_file \in {"missing", "unreadable", "empty"}

\* C16 as stated: when the audio file is missing, unreadable or empty, no
\* clip at all has been opened and the encoder is not invoked.
C16_NoClipOpened ==
  BadAudioFile => opened = {} /\ write_videofile_calls = 0

\* C16: when the audio file is missing, unreadable or empty, the run fails
\* with the message of that test before the audio track is opened (the
\* slides and the timeline have been built by then), the encoder is not
\* invoked and the request is answered with an error.
C16_FailsBeforeAudioOpened ==
  BadAudioFile =>
    /\ result = Failure("Audio file " \o audio_file)
    /\ full_audio_clip_main = None
    /\ temp_audio_segment_intermediate = None
    /\ audio_segment_final_for_video = None
    /\ \A h \in opened : h[1] \notin {"full_audio_clip_main",
                                       "temp_audio_segment_intermediate",
                                       "audio_segment_final_for_video"}
    /\ write_videofile_calls = 0
    /\ ~output_exists
    /\ stages = Prefix(StageOrder, Len(StageOrder) - 2)
    /\ pc = "done" => response = 500

\* A request answered 500 for an empty audio file, after its slides were built
C16_Witness ==
  /\ pc = "done"
  /\ response = 500
  /\ audio_file = "empty"
  /\ processed_image_clips # <<>>
  /\ base_video # None

\* (True, output_path) came back: 200 with the identifier and the path of
\* the file write_videofile wrote
SuccessOutcome ==
  /\ response = 200
  /\ Succeeded
  /\ write_videofile_calls = 1
  /\ output_exists

\* The pipeline ran and failed: 500
ErrorOutcome ==
  /\ response = 500
  /\ exit # "running"
  /\ ~Succeeded

\* An identifier resolved to no file: 404, and the pipeline did not run
NotFoundOutcome ==
  /\ response = 404
  /\ exit = "running"
  /\ result = NoResult
  /\ opened = {}
  /\ stages = <<>>
  /\ write_videofile_calls = 0
  /\ ~output_exists

Begins(name, id) ==
  /\ Len(id) <= Len(name)
  /\ \A k \in 1..Len(id) : name[k] = id[k]

\* C18: the lookup raises 404 exactly when no name of the listing begins with
\* the identifier; otherwise it gives the directory joined with the first
\* name of the listing that begins with it.
C18_FirstMatchOr404 ==
  resolved # NotCalled =>
    LET l == directory_listing
    IN /\ resolved = NotFound <=> \A k \in 1..Len(l) : ~Begins(l[k], file_id)
       /\ resolved # NotFound =>
            \E k \in 1..Len(l) :
              /\ resolved.path[2] = l[k]
              /\ resolved.path[1] \in {"uploaded_files", "processed_outputs"}
              /\ Begins(l[k], file_id)
              /\ \A j \in 1..(k - 1) : ~Begins(l[j], file_id)

\* The second entry of the listing is returned: the first one does not
\* begin with the identifier
C18_Witness ==
  /\ resolved \notin {NotCalled, NotFound}
  /\ Len(directory_listing) = 2
  /\ file_id # <<>>
  /\ resolved.path[2] = directory_listing[2]

\* C19: every file a request opens for writing is named after the identifier
\* that request generated and did not exist before, and no path is opened
\* for writing by two requests.
C19_OwnFreshPaths ==
  \A w \in writes :
    /\ Len(w.path[2]) = 2
    /\ w.path[2][1] = requests[w.by].id
    /\ requests[w.by].id # 0
    /\ ~w.existed
    /\ \A v \in writes : v.path = w.path => v.by = w.by

\* Two requests have written into the same directory
C19_Witness ==
  \E w, v \in writes :
    /\ w.by # v.by
    /\ w.path[1] = v.path[1]
    /\ requests[w.by].at = "done"
    /\ requests[v.by].at = "done"

\* The request has exactly one text, and that text names no slide
OneGlobalText == Len(texts) = 1 /\ texts[1].image_index = {}

\* C20: without enable_image_animations no processed slide has an animated
\* clip; with it every processed slide has one, made by the rotation when
\* the request has exactly one text and that text names no slide, and by the
\* pan of an enlarged copy (content_to_animate) in every other case.
C20_AnimationVariant ==
  \A i \in 0..(Len(processed_image_clips) - 1) :
    /\ H("animated_content_clip", i) \in opened <=> enable_image_animations
    /\ H("content_to_animate", i) \in opened <=>
         (enable_image_animations /\ ~OneGlobalText)
    /\ processed_image_clips[i + 1][1] \in
         (IF enable_image_animations
          THEN {"current_image_canvas_clip", "final_clip_for_this_image_slot"}
          ELSE {"cropped_clip", "final_clip_for_this_image_slot"})

\* Two slides rotated for a single text that names no slide
C20_Witness ==
  /\ enable_image_animations
  /\ OneGlobalText
  /\ Len(processed_image_clips) = 2
  /\ H("animated_content_clip", 1) \in opened
  /\ H("content_to_animate", 1) \notin opened

\* C12: a segment asked to reach past the end of the track lasts only from
\* the start offset to the end of the track.
C12_SegmentCutAtTrackEnd ==
  (/\ temp_audio_segment_intermediate # None
   /\ audio_segment_duration_from_music # {}) =>
    LET track == duration[full_audio_clip_main]
        asked == Value(audio_segment_duration_from_music)
    IN music_segment_start_time + asked > track =>
         duration[temp_audio_segment_intermediate]
           = track - music_segment_start_time

\* The body breaks one of the bounds the request has on its fields.
OutOfBounds ==
  \/ Len(image_paths) > 5
  \/ image_display_duration <= 0
  \/ transition_duration < 0
  \/ music_segment_start_time < 0
  \/ \E x \in audio_segment_duration_from_music : x <= 0
  \/ fps <= 0
  \/ video_aspect_ratio \notin {"16:9", "9:16", "1:1"}
  \/ \E k \in DOMAIN texts : position[k] \notin {"top", "center", "bottom"}

\* C21: a create-video request that breaks a bound of its fields is answered
\* as invalid input with no lookup begun, no stage run and no handle opened;
\* a request within all the bounds is never answered as invalid input.
C21_InvalidInputRejectedFirst ==
  /\ OutOfBounds =>
       /\ pc \in {"validate", "done"}
       /\ pc = "done" => response = 422
       /\ stages = <<>>
       /\ opened = {}
       /\ result = NoResult
  /\ ~OutOfBounds => response # 422

\* A request with more than 5 images has been answered as invalid input.
C21_Witness ==
  /\ Len(image_paths) > 5
  /\ pc = "done"
  /\ response = 422

\* The text layers made so far, composited or not
TextLayers == {h \in opened : h[1] = "txt_clip_candidate"}

\* C22: every composited text layer has a positive duration and lies within
\* the timeline; the layer of a text without image_index starts at 0 and lasts
\* the whole timeline; a layer ends at the end its text asks for or at the end
\* of the timeline, whichever comes first; and a layer is composited exactly
\* when the duration left to it is positive.
C22_TextLayersWithinTimeline ==
  /\ \A h \in Range(text_clips_to_composite) :
       /\ duration[h] > 0
       /\ clip_start[h] >= 0
       /\ clip_start[h] + duration[h] <= total_video_duration
       /\ ~Indexed(h) => clip_start[h] = 0 /\ duration[h] = total_video_duration
  /\ \A h \in TextLayers :
       /\ clip_start[h] + duration[h] =
            Min(clip_start[h] + text_duration(TextOf(h)), total_video_duration)
          \/ (duration[h] = 0 /\ clip_start[h] >= total_video_duration)
       /\ h \in Range(text_clips_to_composite) <=> duration[h] > 0

\* A text without image_index is composited over a timeline of several slides.
C22_Witness ==
  /\ Len(processed_image_clips) > 1
  /\ total_video_duration > image_display_duration
  /\ \E h \in Range(text_clips_to_composite) :
       /\ ~Indexed(h)
       /\ clip_start[h] = 0
       /\ duration[h] = total_video_duration

\* C23: when close() is called on a handle, every handle that was made from
\* it has been closed before: the final clip before the timeline, the timeline
\* before the slides and the text layers, the final segment before the
\* intermediate one and both before the track.
C23_ClosedInDependencyOrder ==
  \A j \in 1..Len(closed) :
    \A h \in opened :
      derived_from(h, closed[j]) => \E i \in 1..(j - 1) : closed[i] = h

\* C24: the slide is scaled by height when the image is wider than the video
\* and by width otherwise; the scaled image is at least as wide and as high as
\* the video; and the crop has exactly the size of the video, its window lying
\* inside the scaled image.
C24_CoverAndCrop ==
  LET w == image_size[1]
      h == image_size[2]
      video_w == video_size[1]
      video_h == video_size[2]
  IN /\ resized_size # <<>> =>
          /\ IF w * video_h > video_w * h
             THEN resized_size[2] = video_h
             ELSE resized_size[1] = video_w
          /\ resized_size[1] >= video_w
          /\ resized_size[2] >= video_h
     /\ cropped_size # <<>> =>
          /\ cropped_size = <<video_w, video_h>>
          /\ resized_size[1] - video_w >= 0
          /\ resized_size[2] - video_h >= 0

\* An image wider than the video whose scaled width is not a whole number, and
\* whose crop leaves an odd number of columns out
C24_Witness ==
  /\ cropped_size # <<>>
  /\ image_size[1] * video_size[2] > video_size[1] * image_size[2]
  /\ (image_size[1] * video_size[2]) % image_size[2] # 0
  /\ (resized_size[1] - video_size[1]) % 2 = 1

\* C25: a composited layer of a text bound to slide k starts where slide k
\* starts in the timeline, and the overlap the text pass takes off each slide
\* before k is the fade that slide was given.
C25_TextStartsWithItsSlide ==
  \A h \in Range(text_clips_to_composite) :
    (base_video # None /\ Indexed(h) /\ IndexOf(h) \in 0..(n - 1)) =>
      /\ clip_start[h] = clip_start_in_timeline(IndexOf(h))
      /\ \A k_idx \in 0..(IndexOf(h) - 1) :
           image_display_duration - clip_eff_duration(k_idx) = slot_fade[k_idx + 1]

\* C26: a pipeline that has ended has returned a result, no exception having
\* left it: (True, output_path) when the encoder was called and completed,
\* and (False, message) otherwise.
C26_OneResultNoEscape ==
  (pc = "respond" \/ (pc = "done" /\ response \in {200, 500})) =>
    /\ exit = "returned"
    /\ result # NoResult
    /\ result.success => write_videofile_calls = 1 /\ output_exists
    /\ ~result.success => result.message # "pending"

\* C29: a request with no image is not answered as invalid input; once its
\* audio identifier has resolved, the pipeline returns the failure 'No valid
\* image clips could be created.' and the request is answered with an error;
\* at no point is the audio track opened, the encoder called or a file left
\* at the output path.
C29_EmptyImageList ==
  image_paths = <<>> =>
    /\ response # 422
    /\ full_audio_clip_main = None
    /\ audio_file = "unchecked"
    /\ opened = {}
    /\ write_videofile_calls = 0
    /\ ~output_exists
    /\ pc \in {"cleanup", "respond", "done"} /\ response # 404 =>
         result = Failure("No valid image clips could be created.")
    /\ pc = "done" /\ response # 404 =>
         /\ response = 500
         /\ exit = "returned"

\* A request with no image has been answered with the pipeline's failure.
C29_Witness ==
  /\ image_paths = <<>>
  /\ pc = "done"
  /\ response = 500
  /\ result = Failure("No valid image clips could be created.")

\* C27: a create-video request whose identifiers have resolved finds its
\* image and its audio file when it comes to open them, whatever
\* cleanup_old_files does meanwhile, and is not answered with an error.
C27_InputsKeptWhileInFlight ==
  /\ in_flight.at = "image" => in_flight.image_path \in files
  /\ in_flight.at \in {"image", "audio"} => in_flight.audio_path \in files
  /\ in_flight.status_code # 500

\* The files cleanup_old_files has removed, the files it is to remove and
\* the files whose removal failed
Removed == DOMAIN stat \ files
OldFiles ==
  {filepath \in DOMAIN stat :
     /\ filepath[1] \in {"uploaded_files", "processed_outputs"}
     /\ stat[filepath].isfile
     /\ stat[filepath].mtime < Now - sweep.age_in_hours}
FailedToRemove == Range(sweep.deletion_errors)

\* C28: cleanup_old_files removes only regular files of the two directories
\* that were modified before now minus age_in_hours hours, counts exactly the
\* files it removed and records only files it failed to remove; when it
\* returns, every such file is either removed or recorded as a failure.
C28_RemovesExactlyOldFiles ==
  /\ Removed \subseteq OldFiles
  /\ sweep.files_deleted_count = Cardinality(Removed)
  /\ FailedToRemove \subseteq OldFiles \cap files
  /\ sweep.at = "done" => Removed \cup FailedToRemove = OldFiles

\* cleanup_old_files has returned after a failure in the first directory and
\* a removal in the second, leaving a file that is not old
C28_Witness ==
  /\ sweep.at = "done"
  /\ \E filepath \in FailedToRemove : filepath[1] = "uploaded_files"
  /\ \E filepath \in Removed : filepath[1] = "processed_outputs"

\* The uploads that were answered as done, and those answered 413
Uploaded ==
  {r \in DOMAIN requests :
     /\ requests[r].kind = "upload_file"
     /\ requests[r].at = "done"
     /\ requests[r].status_code = 200}
TooLarge ==
  {r \in DOMAIN requests :
     requests[r].kind = "upload_file" /\ requests[r].status_code = 413}

====
